---- MODULE Spec2Model ----
(***************************************************************************)
(* The two aggregation modules of the generated client SDK,                *)
(*   submarine/client/apis/__init__.py   and                               *)
(*   submarine/client/models/__init__.py,                                  *)
(* as a state machine over the interpreter's module table.  Each module    *)
(* body is a list of `from <module> import <Name>` statements; importing   *)
(* the aggregator runs the list top to bottom, once, and binds each name   *)
(* in the aggregator's namespace.                                          *)
(*                                                                         *)
(* The defining modules under submarine.client.api and .model              *)
(* are not part of the two files.  They are the environment: whether one   *)
(* exists, whether it defines the requested name, and whether loading it   *)
(* can exhaust the interpreter stack (the RecursionError both module       *)
(* comments warn of) is chosen nondeterministically in Init.               *)
(***************************************************************************)
EXTENDS Integers, Sequences, FiniteSets, TLC

VARIABLES
    fault,        \* environment: defining module -> "none" | "no_module" | "no_name" | "deep"
    sys_modules,  \* modules currently in the interpreter's module table
    gen,          \* module -> number of times its body ran to completion
    st,           \* aggregator -> "absent" | "done" | "failed"
    ns,           \* aggregator -> namespace (name -> object or Unbound)
    err,          \* aggregator -> the error that aborted its last import, or NoError
    deps,         \* <<aggregator, imported module>> edges followed so far
    directs,      \* defining modules loaded by a caller's own from-import
    cachehits,    \* aggregators whose import was answered from the module table
    oa,           \* (statement-order study) the aggregator whose statements are permuted
    odone,        \* (statement-order study) indices of its statements already executed
    ons,          \* (statement-order study) its namespace so far
    ooverwrote    \* (statement-order study) some statement rebound an already bound name

vars == <<fault, sys_modules, gen, st, ns, err, deps, directs, cachehits, oa, odone, ons, ooverwrote>>
mainvars == <<fault, sys_modules, gen, st, ns, err, deps, directs, cachehits>>
ordervars == <<oa, odone, ons, ooverwrote>>

(***************************************************************************)
(* Bounds of the model.                                                    *)
(***************************************************************************)
\* at most this many defining modules are broken or deep in one environment
MaxFaults == 1
\* at most this many defining modules are imported directly by the caller
MaxDirect == 1
\* Faults and direct imports are placed at the first, the middle and the last
\* statement of each module body (every statement is executed the same way; what
\* differs is how many statements precede and follow it).

(***************************************************************************)
(* The module bodies.                                                      *)
(***************************************************************************)
ApiPkg == "submarine.client.api"
ModelPkg == "submarine.client.model"
ClientPkg == "submarine.client"

\* from <pkg>.<mod> import <name>   (as: the name bound; the source uses no alias)
From(pkg, mod, name) == [pkg |-> pkg, mod |-> mod, name |-> name, as |-> name]

Apis == <<ClientPkg, "apis">>
Models == <<ClientPkg, "models">>
Aggregators == {Apis, Models}

\* slip: statement 4 re-exports ExperimentTemplateApi under the alias ExperimentTemplatesApi
ApiStmtsAliased ==
    << From(ApiPkg, "environment_api", "EnvironmentApi"),
       From(ApiPkg, "experiment_api", "ExperimentApi"),
       From(ApiPkg, "experiment_template_api", "ExperimentTemplateApi"),
       [pkg |-> ApiPkg, mod |-> "experiment_template_api",
        name |-> "ExperimentTemplateApi", as |-> "ExperimentTemplatesApi"],
       From(ApiPkg, "model_version_api", "ModelVersionApi"),
       From(ApiPkg, "notebook_api", "NotebookApi"),
       From(ApiPkg, "registered_model_api", "RegisteredModelApi"),
       From(ApiPkg, "serve_api", "ServeApi") >>

\* slip: the last statement (ServeApi) is missing
ApiStmtsMissingServe ==
    << From(ApiPkg, "environment_api", "EnvironmentApi"),
       From(ApiPkg, "experiment_api", "ExperimentApi"),
       From(ApiPkg, "experiment_template_api", "ExperimentTemplateApi"),
       From(ApiPkg, "experiment_templates_api", "ExperimentTemplatesApi"),
       From(ApiPkg, "model_version_api", "ModelVersionApi"),
       From(ApiPkg, "notebook_api", "NotebookApi"),
       From(ApiPkg, "registered_model_api", "RegisteredModelApi") >>

\* slip: ServeApi is imported from the aggregator itself
ApiStmtsSelfImport ==
    << From(ApiPkg, "environment_api", "EnvironmentApi"),
       From(ApiPkg, "experiment_api", "ExperimentApi"),
       From(ApiPkg, "experiment_template_api", "ExperimentTemplateApi"),
       From(ApiPkg, "experiment_templates_api", "ExperimentTemplatesApi"),
       From(ApiPkg, "model_version_api", "ModelVersionApi"),
       From(ApiPkg, "notebook_api", "NotebookApi"),
       From(ApiPkg, "registered_model_api", "RegisteredModelApi"),
       From(ClientPkg, "apis", "ServeApi") >>

\* slip: statement 4 imports the name ExperimentTemplateApi, already bound by statement 3
ApiStmtsDuplicateName ==
    << From(ApiPkg, "environment_api", "EnvironmentApi"),
       From(ApiPkg, "experiment_api", "ExperimentApi"),
       From(ApiPkg, "experiment_template_api", "ExperimentTemplateApi"),
       From(ApiPkg, "experiment_templates_api", "ExperimentTemplateApi"),
       From(ApiPkg, "model_version_api", "ModelVersionApi"),
       From(ApiPkg, "notebook_api", "NotebookApi"),
       From(ApiPkg, "registered_model_api", "RegisteredModelApi"),
       From(ApiPkg, "serve_api", "ServeApi") >>

\* slip: statement 4 draws from the module of statement 3
ApiStmtsSameModule ==
    << From(ApiPkg, "environment_api", "EnvironmentApi"),
       From(ApiPkg, "experiment_api", "ExperimentApi"),
       From(ApiPkg, "experiment_template_api", "ExperimentTemplateApi"),
       From(ApiPkg, "experiment_template_api", "ExperimentTemplatesApi"),
       From(ApiPkg, "model_version_api", "ModelVersionApi"),
       From(ApiPkg, "notebook_api", "NotebookApi"),
       From(ApiPkg, "registered_model_api", "RegisteredModelApi"),
       From(ApiPkg, "serve_api", "ServeApi") >>

ApiStmts ==
    << From(ApiPkg, "environment_api", "EnvironmentApi"),
       From(ApiPkg, "experiment_api", "ExperimentApi"),
       From(ApiPkg, "experiment_template_api", "ExperimentTemplateApi"),
       From(ApiPkg, "experiment_templates_api", "ExperimentTemplatesApi"),
       From(ApiPkg, "model_version_api", "ModelVersionApi"),
       From(ApiPkg, "notebook_api", "NotebookApi"),
       From(ApiPkg, "registered_model_api", "RegisteredModelApi"),
       From(ApiPkg, "serve_api", "ServeApi") >>

ModelStmts ==
    << From(ModelPkg, "code_spec", "CodeSpec"),
       From(ModelPkg, "environment_spec", "EnvironmentSpec"),
       From(ModelPkg, "experiment_meta", "ExperimentMeta"),
       From(ModelPkg, "experiment_spec", "ExperimentSpec"),
       From(ModelPkg, "experiment_task_spec", "ExperimentTaskSpec"),
       From(ModelPkg, "experiment_template_param_spec", "ExperimentTemplateParamSpec"),
       From(ModelPkg, "experiment_template_spec", "ExperimentTemplateSpec"),
       From(ModelPkg, "experiment_template_submit", "ExperimentTemplateSubmit"),
       From(ModelPkg, "git_code_spec", "GitCodeSpec"),
       From(ModelPkg, "json_response", "JsonResponse"),
       From(ModelPkg, "kernel_spec", "KernelSpec"),
       From(ModelPkg, "model_version_entity", "ModelVersionEntity"),
       From(ModelPkg, "notebook_meta", "NotebookMeta"),
       From(ModelPkg, "notebook_pod_spec", "NotebookPodSpec"),
       From(ModelPkg, "notebook_spec", "NotebookSpec"),
       From(ModelPkg, "registered_model_entity", "RegisteredModelEntity"),
       From(ModelPkg, "serve_spec", "ServeSpec") >>

\* slip: the last import line of each module body is lost
StmtsTruncated(a) ==
    LET body == IF a = Apis THEN ApiStmts ELSE ModelStmts
    IN  SubSeq(body, 1, Len(body) - 1)

Stmts(a) == IF a = Apis THEN ApiStmts ELSE ModelStmts

\* the module a statement imports from
Mod(s) == <<s.pkg, s.mod>>

StmtSet(a) == {Stmts(a)[k] : k \in 1..Len(Stmts(a))}
AllStmts == StmtSet(Apis) \cup StmtSet(Models)
DefMods == {Mod(s) : s \in AllStmts}
AllMods == DefMods \cup Aggregators
Names == {s.name : s \in AllStmts} \cup {s.as : s \in AllStmts}

(***************************************************************************)
(* Objects and namespaces.  A class object is created when its module's    *)
(* body runs, so it is identified by the module, the name and the run.     *)
(***************************************************************************)
Obj(m, name, g) == [mod |-> m, name |-> name, gen |-> g]
Unbound == [mod |-> <<"", "">>, name |-> "", gen |-> 0]
EmptyNs == [n \in Names |-> Unbound]
Bind(space, s, o) == [space EXCEPT ![s.as] = o]
BoundNames(space) == {n \in Names : space[n] # Unbound}

NoError == [kind |-> "none", stmt |-> 0]
Error(kind, k) == [kind |-> kind, stmt |-> k]

(***************************************************************************)
(* The environment: the defining modules as the interpreter finds them.    *)
(*   "none"      the module exists and defines the name asked of it        *)
(*   "no_module" the module cannot be found (ModuleNotFoundError)          *)
(*   "no_name"   the module loads but does not define the name             *)
(*               (ImportError: cannot import name)                         *)
(*   "deep"      the module exists and defines the name, but its own chain *)
(*               of nested imports is deep enough that loading it may run  *)
(*               into the recursion limit (RecursionError); whether it     *)
(*               does depends on the interpreter stack, which is not       *)
(*               modelled, so each load of a deep module may raise or not  *)
(***************************************************************************)
FaultKinds == {"no_module", "no_name", "deep"}

RECURSIVE SubsetsUpTo(_, _)
SubsetsUpTo(S, n) ==
    IF n = 0 THEN {{}}
    ELSE LET P == SubsetsUpTo(S, n - 1)
         IN  P \cup {p \cup {x} : p \in P, x \in S}

ProbePositions(a) == {1, (Len(Stmts(a)) + 1) \div 2, Len(Stmts(a))}
Probed == UNION {{Mod(Stmts(a)[k]) : k \in ProbePositions(a)} : a \in Aggregators}

Environments ==
    UNION { { [m \in DefMods |-> IF m \in F THEN kindOf[m] ELSE "none"] :
                kindOf \in [F -> FaultKinds] } :
            F \in SubsetsUpTo(Probed, MaxFaults) }

\* the from-import resolves: its module exists and defines the name
Resolves(s) == fault[Mod(s)] \in {"none", "deep"}
DeepMods == {m \in DefMods : fault[m] = "deep"}

(***************************************************************************)
(* The import statement.  M is the interpreter state threaded through a    *)
(* module body: the module table, the run counters, the namespace being    *)
(* filled, the edges followed and the error raised, if any.                *)
(***************************************************************************)
Main == <<"", "__main__">>

\* slip: the module table is never consulted, every import runs the module again
CachedNever(m, mods) == FALSE

\* sys.modules lookup: a module already in the table is not executed again
Cached(m, mods) == m \in mods

\* `from Mod(s) import s.name`, statement number k of module `importer`;
\* `raising` are the deep modules whose load hits the recursion limit this time
FromImport(importer, s, k, M, raising) ==
    LET m == Mod(s)
        followed == M.deps \cup {<<importer, m>>}
    IN  IF ~Cached(m, M.mods) /\ fault[m] = "no_module"
          THEN [M EXCEPT !.deps = followed, !.err = Error("ModuleNotFoundError", k)]
        ELSE IF ~Cached(m, M.mods) /\ fault[m] = "deep" /\ m \in raising
          THEN [M EXCEPT !.deps = followed, !.err = Error("RecursionError", k)]
        ELSE LET mods1 == M.mods \cup {m}
                 gen1 == IF Cached(m, M.mods) THEN M.gen
                         ELSE [M.gen EXCEPT ![m] = @ + 1]
             IN  IF fault[m] = "no_name"
                   THEN [M EXCEPT !.mods = mods1, !.gen = gen1, !.deps = followed,
                                  !.err = Error("ImportError", k)]
                   ELSE [M EXCEPT !.mods = mods1, !.gen = gen1, !.deps = followed,
                                  !.space = Bind(@, s, Obj(m, s.name, gen1[m]))]

\* slip: every statement is guarded (try/except), so the body runs on after an error
RECURSIVE ExecSwallowing(_, _, _, _)
ExecSwallowing(a, M, k, raising) ==
    IF k > Len(Stmts(a)) THEN M
    ELSE ExecSwallowing(a, FromImport(a, Stmts(a)[k], k, M, raising), k + 1, raising)

\* the module body of aggregator a from statement k on: top to bottom, stopping
\* at the first statement that raises
RECURSIVE Exec(_, _, _, _)
Exec(a, M, k, raising) ==
    IF k > Len(Stmts(a)) \/ M.err # NoError THEN M
    ELSE Exec(a, FromImport(a, Stmts(a)[k], k, M, raising), k + 1, raising)

\* the namespace the statements of a build when all of them succeed on first load
RECURSIVE Fold(_, _, _)
Fold(a, k, space) ==
    IF k > Len(Stmts(a)) THEN space
    ELSE Fold(a, k + 1, Bind(space, Stmts(a)[k], Obj(Mod(Stmts(a)[k]), Stmts(a)[k].name, 1)))
SourceOrderNs(a) == Fold(a, 1, EmptyNs)

(***************************************************************************)
(* Operations.                                                             *)
(***************************************************************************)
\* `import submarine.client.apis` / `import submarine.client.models`
ImportAggregator(a) ==
    /\ IF Cached(a, sys_modules)
         THEN /\ cachehits' = cachehits \cup {a}
              /\ UNCHANGED <<fault, sys_modules, gen, st, ns, err, deps, directs>>
         ELSE \E raising \in SUBSET (DeepMods \ sys_modules) :
                LET M0 == [mods |-> sys_modules, gen |-> gen, space |-> EmptyNs,
                           deps |-> deps, err |-> NoError]
                    R == Exec(a, M0, 1, raising)
                    ok == R.err = NoError
                IN  /\ sys_modules' = IF ok THEN R.mods \cup {a} ELSE R.mods
                    /\ gen' = IF ok THEN [R.gen EXCEPT ![a] = @ + 1] ELSE R.gen
                    /\ st' = [st EXCEPT ![a] = IF ok THEN "done" ELSE "failed"]
                    /\ ns' = [ns EXCEPT ![a] = R.space]
                    /\ err' = [err EXCEPT ![a] = R.err]
                    /\ deps' = R.deps
                    /\ UNCHANGED <<fault, directs, cachehits>>
    /\ UNCHANGED ordervars

ImportApis == ImportAggregator(Apis)
ImportModels == ImportAggregator(Models)

\* the caller imports one class from its own defining module, as the module
\* comments advise:  from submarine.client.api.environment_api import EnvironmentApi
ImportDirect ==
    /\ \E s \in {x \in AllStmts : Mod(x) \in Probed} :
         /\ Mod(s) \in directs \/ Cardinality(directs) < MaxDirect
         /\ \E raising \in SUBSET (DeepMods \ sys_modules) :
              LET M0 == [mods |-> sys_modules, gen |-> gen, space |-> EmptyNs,
                         deps |-> deps, err |-> NoError]
                  R == FromImport(Main, s, 1, M0, raising)
              IN  /\ sys_modules' = R.mods
                  /\ gen' = R.gen
                  /\ directs' = IF Mod(s) \in R.mods THEN directs \cup {Mod(s)} ELSE directs
                  /\ UNCHANGED <<fault, st, ns, err, deps, cachehits>>
    /\ UNCHANGED ordervars

Init ==
    /\ fault \in Environments
    /\ sys_modules = {}
    /\ gen = [m \in AllMods \cup {Main} |-> 0]
    /\ st = [a \in Aggregators |-> "absent"]
    /\ ns = [a \in Aggregators |-> EmptyNs]
    /\ err = [a \in Aggregators |-> NoError]
    /\ deps = {}
    /\ directs = {}
    /\ cachehits = {}
    /\ oa = Apis
    /\ odone = {}
    /\ ons = EmptyNs
    /\ ooverwrote = FALSE

Next ==
    \/ ImportApis
    \/ ImportModels
    \/ ImportDirect

Spec == Init /\ [][Next]_vars

(***************************************************************************)
(* Statement order.  The same statements, executed one at a time in any    *)
(* order, in an environment where every defining module loads.             *)
(***************************************************************************)
OrderStep ==
    /\ \E k \in (1..Len(Stmts(oa))) \ odone :
         LET s == Stmts(oa)[k]
         IN  /\ ooverwrote' = (ooverwrote \/ ons[s.as] # Unbound)
             /\ ons' = Bind(ons, s, Obj(Mod(s), s.name, 1))
             /\ odone' = odone \cup {k}
    /\ UNCHANGED <<oa, mainvars>>

InitOrder ==
    /\ fault = [m \in DefMods |-> "none"]
    /\ sys_modules = {}
    /\ gen = [m \in AllMods \cup {Main} |-> 0]
    /\ st = [a \in Aggregators |-> "absent"]
    /\ ns = [a \in Aggregators |-> EmptyNs]
    /\ err = [a \in Aggregators |-> NoError]
    /\ deps = {}
    /\ directs = {}
    /\ cachehits = {}
    /\ oa \in Aggregators
    /\ odone = {}
    /\ ons = EmptyNs
    /\ ooverwrote = FALSE

NextOrder == OrderStep

SpecOrder == InitOrder /\ [][NextOrder]_vars

(***************************************************************************)
(* Properties.                                                             *)
(***************************************************************************)
\* what `from m import name` yields now: the object the loaded module holds
ModuleAttr(m, name) ==
    IF m \in sys_modules /\ m \in DOMAIN fault /\ fault[m] # "no_name"
      THEN Obj(m, name, gen[m])
      ELSE Unbound

Healthy(a) == \A s \in StmtSet(a) : fault[Mod(s)] = "none"
Other(a) == IF a = Apis THEN Models ELSE Apis

\* the export surface as the interface description lists it
ApiClassNames ==
    {"EnvironmentApi", "ExperimentApi", "ExperimentTemplateApi", "ExperimentTemplatesApi",
     "ModelVersionApi", "NotebookApi", "RegisteredModelApi", "ServeApi"}
ModelClassNames ==
    {"CodeSpec", "EnvironmentSpec", "ExperimentMeta", "ExperimentSpec", "ExperimentTaskSpec",
     "ExperimentTemplateParamSpec", "ExperimentTemplateSpec", "ExperimentTemplateSubmit",
     "GitCodeSpec", "JsonResponse", "KernelSpec", "ModelVersionEntity", "NotebookMeta",
     "NotebookPodSpec", "NotebookSpec", "RegisteredModelEntity", "ServeSpec"}

ApisExportsExactlyTheApiClasses ==
    st[Apis] = "done" => BoundNames(ns[Apis]) = ApiClassNames

ApisImported == st[Apis] = "done" /\ Cardinality(BoundNames(ns[Apis])) = 8

\* C3: after a successful import of submarine.client.models the names bound in
\* it are exactly the 17 model classes.
ModelsExportsExactlyTheModelClasses ==
    st[Models] = "done" => BoundNames(ns[Models]) = ModelClassNames

ModelsImported == st[Models] = "done" /\ Cardinality(BoundNames(ns[Models])) = 17

\* the import of a aborted at statement err[a].stmt: the aggregator is not in the
\* module table, the names of the statements before it are bound, and none of
\* the names of that statement and the later ones is
AbortedAtStatement(a) ==
    LET k == err[a].stmt
    IN  /\ k \in 1..Len(Stmts(a))
        /\ a \notin sys_modules
        /\ \A j \in 1..Len(Stmts(a)) :
              (ns[a][Stmts(a)[j].as] = Unbound) <=> (j >= k)

\* C4 as stated: the import succeeds if and only if every from-import resolves
\* (its module exists and defines the name), and a failed import has aborted at
\* the failing statement with none of the later names bound.
ImportSucceedsIffEveryFromImportResolves ==
    \A a \in Aggregators :
        st[a] # "absent" =>
            /\ (st[a] = "done") <=> (\A s \in StmtSet(a) : Resolves(s))
            /\ st[a] = "failed" => AbortedAtStatement(a)

\* C4 amended: the import succeeds only if every from-import resolves; it fails
\* at the first statement that raises, which is the first one that does not
\* resolve (ModuleNotFoundError for a missing module, ImportError for a missing
\* name) or an earlier one whose module exists and defines the name but whose
\* load ran into the recursion limit (RecursionError); a failed import has
\* aborted at that statement with none of the later names bound; and where
\* every defining module is intact the import succeeds.
ImportFailsExactlyWhereAStatementRaises ==
    \A a \in Aggregators :
        /\ st[a] = "absent" => err[a] = NoError /\ a \notin sys_modules
        /\ st[a] = "done" =>
             /\ err[a] = NoError
             /\ a \in sys_modules
             /\ \A s \in StmtSet(a) : Resolves(s)
        /\ st[a] = "failed" =>
             /\ AbortedAtStatement(a)
             /\ \A j \in 1..(err[a].stmt - 1) : Resolves(Stmts(a)[j])
             /\ LET m == Mod(Stmts(a)[err[a].stmt])
                IN  \/ err[a].kind = "ModuleNotFoundError" /\ fault[m] = "no_module"
                    \/ err[a].kind = "ImportError" /\ fault[m] = "no_name"
                    \/ err[a].kind = "RecursionError" /\ fault[m] = "deep"
        /\ (st[a] # "absent" /\ Healthy(a)) => st[a] = "done"

\* an import aborted by a RecursionError part way through the body, although
\* every from-import of the aggregator resolves
AbortedByRecursionError ==
    \E a \in Aggregators :
        /\ st[a] = "failed"
        /\ err[a].kind = "RecursionError"
        /\ err[a].stmt > 1
        /\ \A s \in StmtSet(a) : Resolves(s)

\* C6: the edges an aggregator follows lead only to modules of its own package
\* of defining modules (submarine.client.api for apis, submarine.client.model
\* for models), never to itself or to the other aggregator.
AggregatorsImportOnlyDefiningModules ==
    \A e \in deps :
        /\ e[1] \in Aggregators
        /\ e[2] \notin Aggregators
        /\ e[1] = Apis => e[2][1] = ApiPkg
        /\ e[1] = Models => e[2][1] = ModelPkg

AllEdgesFollowed ==
    /\ st[Apis] = "done" /\ st[Models] = "done"
    /\ Cardinality(deps) = 25

\* C7: no name is bound twice.  Executing the statements of an aggregator in
\* any order never rebinds a bound name, binds one new name per statement, ends
\* in the namespace that the source order builds, and binds no name that the
\* other aggregator binds.
NoNameBoundTwiceInAnyOrder ==
    /\ ~ooverwrote
    /\ Cardinality(BoundNames(ons)) = Cardinality(odone)
    /\ odone = 1..Len(Stmts(oa)) => ons = SourceOrderNs(oa)
    /\ BoundNames(ons) \cap BoundNames(SourceOrderNs(Other(oa))) = {}
    /\ \A a \in Aggregators : Cardinality(BoundNames(SourceOrderNs(a))) = Len(Stmts(a))

\* all 17 statements of models executed, in one of their orders
ModelsBodyExecutedOutOfOrder ==
    /\ oa = Models
    /\ odone = 1..Len(Stmts(Models))
    /\ Cardinality(BoundNames(ons)) = 17

\* C8: once an aggregator is imported successfully, no later import (of it, of
\* the other aggregator or of a defining module) changes it: it stays imported,
\* its body does not run again, and every name stays bound to the same object,
\* which stays the object its defining module holds.
ImportIsIdempotent ==
    [][\A a \in Aggregators :
          st[a] = "done" =>
              /\ st'[a] = "done"
              /\ ns'[a] = ns[a]
              /\ gen'[a] = gen[a]
              /\ \A n \in BoundNames(ns[a]) :
                    ns'[a][n] = ModuleAttr(ns[a][n].mod, n)']_vars

\* both aggregators imported, then imported again, around a direct import
ImportedAgain ==
    /\ cachehits = Aggregators
    /\ directs # {}
    /\ st[Apis] = "done" /\ st[Models] = "done"

\* C9: the re-exports are one-to-one with the defining modules: an imported
\* aggregator binds as many names as it has statements (8, 17), each under the
\* name the object has in its defining module, and no two names of the two
\* aggregators come from the same module.
ReExportsAreOneToOne ==
    /\ \A a \in Aggregators :
          st[a] = "done" =>
              /\ Cardinality(BoundNames(ns[a])) = Len(Stmts(a))
              /\ Len(Stmts(a)) = IF a = Apis THEN 8 ELSE 17
              /\ \A n \in BoundNames(ns[a]) : ns[a][n].name = n
              /\ Cardinality({ns[a][n].mod : n \in BoundNames(ns[a])}) = Len(Stmts(a))
    /\ \A a, b \in Aggregators :
          \A n1 \in BoundNames(ns[a]), n2 \in BoundNames(ns[b]) :
              (a # b \/ n1 # n2) => ns[a][n1].mod # ns[b][n2].mod

TwentyFiveNamesFromTwentyFiveModules ==
    /\ st[Apis] = "done" /\ st[Models] = "done"
    /\ Cardinality({ns[Apis][n].mod : n \in BoundNames(ns[Apis])}
                   \cup {ns[Models][n].mod : n \in BoundNames(ns[Models])}) = 25

====
